---- MODULE Spec2Model ----
(***************************************************************************)
(* Model of the Sass plugin of the esbuild-based browser builder           *)
(* (stylesheets/sass-plugin.ts): the two load handlers with their result   *)
(* cache, the lazily created module-scope Sass worker, the translation of  *)
(* compiler results and exceptions, and the custom importer (findFileUrl)  *)
(* with its resolver (resolveUrl).                                         *)
(*                                                                         *)
(* Strings (paths, URLs, specifiers, source texts) are sequences of atoms. *)
(* The separators "/", ";" and the scope marker "@" are atoms of their     *)
(* own, an extension such as ".scss" is one atom, and every other atom is  *)
(* a run of characters holding no separator. An optional value is a        *)
(* sequence of length at most one: <<>> is undefined, <<v>> is v.          *)
(***************************************************************************)
EXTENDS Integers, Sequences, FiniteSets, TLC

(* ------------------------------ bounds --------------------------------- *)
\* load-handler invocations per behaviour
MaxLoads == 2
\* warnings the compiler emits during one compilation
MaxWarnings == 1
\* calls of shutdownSassWorkerPool per behaviour
MaxShutdowns == 1
\* segments of an import specifier handed to findFileUrl
MaxSegs == 4
\* entries of previousResolvedModules
MaxRoots == 2
\* entries of a source map's sources
MaxSources == 2
\* calls of sourceMapToUrlComment on one source map
MaxRewrites == 2
\* warnings the compiler emits during the compilation of a load taken alone
MaxEmitted == 2

(* --------------------------- optional values --------------------------- *)
Undefined == <<>>
Some(v) == <<v>>
IsDefined(o) == o # <<>>
Get(o) == o[1]

Min(a, b) == IF a < b THEN a ELSE b

(* ------------------------------ strings -------------------------------- *)
\* index of the first occurrence of atom sep in s, 0 when there is none
RECURSIVE IndexOf(_, _, _)
IndexOf(s, sep, i) ==
  IF i > Len(s) THEN 0
  ELSE IF s[i] = sep THEN i
  ELSE IndexOf(s, sep, i + 1)

\* String.prototype.split(sep): "" splits into [""]
RECURSIVE Split(_, _)
Split(s, sep) ==
  LET i == IndexOf(s, sep, 1) IN
  IF i = 0 THEN <<s>>
  ELSE <<SubSeq(s, 1, i - 1)>> \o Split(SubSeq(s, i + 1, Len(s)), sep)

\* String.prototype.split(sep, limit): the first limit pieces, the rest dropped
SplitLimit(s, sep, limit) ==
  LET all == Split(s, sep) IN SubSeq(all, 1, Min(limit, Len(all)))

\* String.prototype.startsWith
StartsWith(s, atom) == Len(s) >= 1 /\ s[1] = atom

\* Array.prototype.join(sep) on an array of strings
RECURSIVE JoinWith(_, _)
JoinWith(parts, sep) ==
  IF Len(parts) = 0 THEN <<>>
  ELSE IF Len(parts) = 1 THEN parts[1]
  ELSE parts[1] \o <<sep>> \o JoinWith(Tail(parts), sep)

\* the non-empty strings of an array, in order
RECURSIVE NonEmpty(_)
NonEmpty(parts) ==
  IF Len(parts) = 0 THEN <<>>
  ELSE IF parts[1] = <<>> THEN NonEmpty(Tail(parts))
  ELSE <<parts[1]>> \o NonEmpty(Tail(parts))

(* ---------------------------- node:path -------------------------------- *)
\* the segments of a path after normalisation: empty and "." segments are
\* dropped, ".." removes the segment before it (at the root it is dropped,
\* in a relative path with nothing before it, it stays)
RECURSIVE NormalizeSegs(_, _, _)
NormalizeSegs(segs, acc, isAbs) ==
  IF Len(segs) = 0 THEN acc
  ELSE LET s == segs[1] IN
    IF s = <<>> \/ s = <<".">> THEN NormalizeSegs(Tail(segs), acc, isAbs)
    ELSE IF s = <<"..">> THEN
      IF Len(acc) > 0 /\ acc[Len(acc)] # <<"..">>
        THEN NormalizeSegs(Tail(segs), SubSeq(acc, 1, Len(acc) - 1), isAbs)
      ELSE IF isAbs THEN NormalizeSegs(Tail(segs), acc, isAbs)
      ELSE NormalizeSegs(Tail(segs), Append(acc, s), isAbs)
    ELSE NormalizeSegs(Tail(segs), Append(acc, s), isAbs)

\* path.normalize (posix): a trailing separator is kept
Normalize(p) ==
  IF p = <<>> THEN <<".">>
  ELSE
    LET isAbs == StartsWith(p, "/")
        trailing == p[Len(p)] = "/"
        segs == NormalizeSegs(Split(p, "/"), <<>>, isAbs)
        body == JoinWith(segs, "/")
    IN IF body = <<>> THEN (IF isAbs THEN <<"/">> ELSE IF trailing THEN <<".", "/">> ELSE <<".">>)
       ELSE (IF isAbs THEN <<"/">> ELSE <<>>) \o body \o (IF trailing THEN <<"/">> ELSE <<>>)

\* path.join(...parts): the non-empty arguments joined by "/", then normalised
Join(parts) ==
  LET kept == NonEmpty(parts) IN
  IF kept = <<>> THEN <<".">> ELSE Normalize(JoinWith(kept, "/"))

\* index of the last separator of p at or before i, 0 when there is none
RECURSIVE LastSlash(_, _)
LastSlash(p, i) ==
  IF i = 0 THEN 0 ELSE IF p[i] = "/" THEN i ELSE LastSlash(p, i - 1)

\* p without its trailing separators (the root keeps its one)
RECURSIVE StripTrailing(_)
StripTrailing(p) ==
  IF Len(p) > 1 /\ p[Len(p)] = "/" THEN StripTrailing(SubSeq(p, 1, Len(p) - 1)) ELSE p

\* path.dirname (posix)
Dirname(p) ==
  IF p = <<>> THEN <<".">>
  ELSE
    LET q == StripTrailing(p)
        i == LastSlash(q, Len(q))
    IN IF i = 0 THEN <<".">>
       ELSE IF i = 1 THEN <<"/">>
       ELSE StripTrailing(SubSeq(q, 1, i - 1))

\* atoms that are a file extension, dot included
DotAtoms == {".scss", ".sass", ".SCSS", ".SASS", ".ts"}

\* path.extname: the extension of the last segment; a segment that is only
\* an extension (a dot file) has none
Extname(p) ==
  IF Len(p) >= 2 /\ p[Len(p)] \in DotAtoms /\ p[Len(p) - 1] # "/"
    THEN <<p[Len(p)]>>
    ELSE <<>>

\* String.prototype.toLowerCase on an extension
LowerAtom(a) ==
  CASE a = ".SCSS" -> ".scss"
    [] a = ".SASS" -> ".sass"
    [] OTHER -> a

ToLowerCase(s) == [i \in 1..Len(s) |-> LowerAtom(s[i])]

\* the length of the common prefix of two segment lists
RECURSIVE CommonPrefix(_, _)
CommonPrefix(a, b) ==
  IF Len(a) = 0 \/ Len(b) = 0 \/ a[1] # b[1] THEN 0
  ELSE 1 + CommonPrefix(Tail(a), Tail(b))

\* path.relative(from, to) for absolute paths
Relative(from, to) ==
  LET f == NormalizeSegs(Split(from, "/"), <<>>, TRUE)
      t == NormalizeSegs(Split(to, "/"), <<>>, TRUE)
      n == CommonPrefix(f, t)
      ups == [i \in 1..(Len(f) - n) |-> <<"..">>]
  IN JoinWith(ups \o SubSeq(t, n + 1, Len(t)), "/")

(* ----------------------------- node:url -------------------------------- *)
FileScheme == "file://"

\* pathToFileURL: the file URL of a path (made absolute against the root)
PathToFileURL(p) ==
  <<FileScheme>> \o (IF StartsWith(p, "/") THEN Normalize(p) ELSE Normalize(<<"/">> \o p))

IsFileURL(u) == StartsWith(u, FileScheme)

\* fileURLToPath: the path of a file URL (callers pass file URLs only)
FileURLToPath(u) == Tail(u)

\* fileURLToPath parses a string argument with new URL(...), which throws
\* for a string without a scheme, and rejects every scheme but file:
FileURLToPathThrows(u) == ~IsFileURL(u)

(* ------------------------ inputs of the model -------------------------- *)
\* on-disk stylesheets offered to the file rule
FileA == <<"/", "proj", "/", "a", ".scss">>
FileB == <<"/", "proj", "/", "b", ".sass">>
FilePaths == {FileA, FileB}

\* encoded paths offered to the inline rule: dialect;key;containing file
StyleA == <<"scss", ";", "c1", ";", "/", "proj", "/", "a", ".ts">>
StyleB == <<"sass", ";", "c2", ";", "/", "proj", "/", "b", ".ts">>
StyleC == <<"scss", ";", "c3", ";", "/", "proj", "/", "a", ".ts">>
StyleD == <<"scss", ";", "c4">>
InlinePaths == {StyleA, StyleB, StyleC, StyleD}

\* source texts
TextX == <<"x">>
TextY == <<"y">>
Texts == {TextX, TextY}

\* the caller's mapping from encoded path to source text: StyleA and StyleB
\* carry the same text, StyleC has no entry
ComponentData ==
  [q \in InlinePaths |->
     CASE q = StyleA -> Some(TextX)
       [] q = StyleB -> Some(TextX)
       [] q = StyleD -> Some(TextY)
       [] OTHER -> Undefined]

\* what readFile reads from each stylesheet
FileContents == [f \in FilePaths |-> IF f = FileA THEN TextX ELSE TextY]

\* the keys the cache is used with: inline texts and file paths
Keys == Texts \cup FilePaths

\* a module the compiled stylesheet imports
DepUrl == <<FileScheme, "/", "proj", "/", "_dep", ".scss">>

(* ------------------------------- state --------------------------------- *)
VARIABLES
  sourcemap,            \* options.sourcemap
  inlineComponentData,  \* options.inlineComponentData (optional)
  hasCache,             \* whether createSassPlugin was given a cache
  cache,                \* the cache's entries: key -> optional load result
  sassWorkerPool,       \* the module-scope handle: 0 is undefined, else a worker
  nWorkers,             \* worker instances constructed so far (1..nWorkers)
  closed,               \* worker instances on which close() was called
  shutdowns,            \* calls of shutdownSassWorkerPool so far
  shutdownThrew,        \* whether a call of shutdownSassWorkerPool threw
  loads,                \* the load-handler invocations
  imp,                  \* one invocation of the importer, findFileUrl
  sm                    \* a source map handed to sourceMapToUrlComment

mainVars == <<sourcemap, inlineComponentData, hasCache, cache, sassWorkerPool,
              nWorkers, closed, shutdowns, shutdownThrew, loads>>
vars == <<mainVars, imp, sm>>

Loads == 1..MaxLoads
NoWorker == 0

(* ---------------------- exceptions and warnings ------------------------ *)
\* a thrown value: its JavaScript type, the fields it has when an object,
\* its message, and the url of its span when it has one
Thrown(type, fields, message, spanUrl) ==
  [type |-> type, fields |-> fields, message |-> message, spanUrl |-> spanUrl]

\* !!error
Truthy(error) == error.type \notin {"undefined", "null"}
\* typeof error
TypeOf(error) == IF error.type = "null" THEN "object" ELSE error.type

isSassExceptionLoose(error) == Truthy(error) /\ TypeOf(error) = "object"
isSassException(error) ==
  Truthy(error) /\ TypeOf(error) = "object" /\ "sassMessage" \in error.fields

\* a Sass Exception: sassMessage, message and span, the span's url optional
SassException(spanUrl) ==
  Thrown("object", {"sassMessage", "message", "span"}, <<"Error: expected }">>, spanUrl)

\* what compileStringAsync may reject with for a stylesheet at url
Rejections(url) ==
  {SassException(Undefined), SassException(Some(url)),
   Thrown("object", {"message"}, <<"worker terminated">>, Undefined),
   Thrown("null", {}, <<>>, Undefined)}

\* assert(typeof data === 'string', ...) failing
AssertionError(path) ==
  Thrown("object", {"message", "code"},
         <<"component style name should always be found [">> \o path \o <<"]">>, Undefined)

\* readFile failing
ReadError == Thrown("object", {"message", "code"}, <<"ENOENT">>, Undefined)

\* fileURLToPath of a string that is not a URL
InvalidURL == Thrown("object", {"message", "code", "input"}, <<"ERR_INVALID_URL">>, Undefined)

\* pathToFileURL(undefined)
TypeError == Thrown("object", {"message", "code"}, <<"ERR_INVALID_ARG_TYPE">>, Undefined)

\* a warning as the compiler hands it to logger.warn
RawWarning(text, deprecation, span) ==
  [text |-> text, deprecation |-> deprecation, span |-> span]

RawWarnings ==
  {RawWarning(<<"old syntax">>, TRUE, Undefined),
   RawWarning(<<"unused">>, FALSE,
              Some([url |-> Some(DepUrl), context |-> <<"a: b">>, line |-> 0, column |-> 3]))}

\* the warnings of a load taken alone: also a deprecation with a span that
\* has no url, and a plain warning without span
DetailedWarnings ==
  RawWarnings \cup
  {RawWarning(<<"slash-div">>, TRUE,
              Some([url |-> Undefined, context |-> <<"c: d">>, line |-> 2, column |-> 0])),
   RawWarning(<<"debug">>, FALSE, Undefined)}

(* ------------------------- the Sass compiler --------------------------- *)
\* the options compileString passes to compileStringAsync that decide the
\* output (style, quietDeps and loadPaths are fixed per plugin)
Request(data, filePath, syntax) ==
  [data |-> data, url |-> PathToFileURL(filePath), syntax |-> syntax,
   sourceMap |-> sourcemap, sourceMapIncludeSources |-> sourcemap]

\* the CSS the compiler produces for a request
Css(req) == <<"css-of", req.syntax>> \o req.data \o <<"at">> \o req.url

\* what compileStringAsync resolves to: a source map exactly when asked for
CompileResult(req) ==
  [css |-> Css(req),
   sourceMap |-> IF req.sourceMap THEN Some([sources |-> <<req.url>>]) ELSE Undefined,
   loadedUrls |-> <<req.url>>]

(* ------------------------- result translation -------------------------- *)
\* Buffer.from(JSON.stringify(sourceMap)).toString('base64')
Base64Json(sourceMap) == <<"b64[">> \o JoinWith(sourceMap.sources, ",") \o <<"]">>

\* sources.map(source => relative(root, fileURLToPath(source)))
RewrittenSources(sources, root) ==
  [i \in 1..Len(sources) |-> Relative(root, FileURLToPath(sources[i]))]

sourceMapToUrlComment(sourceMap, root) ==
  LET rewritten == [sources |-> RewrittenSources(sourceMap.sources, root)]
  IN <<"/*# sourceMappingURL=data:application/json;charset=utf-8;base64,">>
       \o Base64Json(rewritten) \o <<" */">>

\* variant: the compiler's zero-based line is reported as it is
WarnMessageZeroBased(w) ==
  [text |-> IF w.deprecation THEN <<"Deprecation">> ELSE w.text,
   location |->
     IF IsDefined(w.span)
       THEN LET span == Get(w.span) IN
            Some([file |-> IF IsDefined(span.url) THEN Some(FileURLToPath(Get(span.url)))
                                                  ELSE Undefined,
                  lineText |-> span.context,
                  line |-> span.line,
                  column |-> span.column])
       ELSE Undefined,
   notes |-> IF w.deprecation THEN Some(<<[text |-> w.text]>>) ELSE Undefined]

\* logger.warn: the esbuild message of a compiler warning
WarnMessage(w) ==
  [text |-> IF w.deprecation THEN <<"Deprecation">> ELSE w.text,
   location |->
     IF IsDefined(w.span)
       THEN LET span == Get(w.span) IN
            Some([file |-> IF IsDefined(span.url) THEN Some(FileURLToPath(Get(span.url)))
                                                  ELSE Undefined,
                  lineText |-> span.context,
                  line |-> span.line + 1,
                  column |-> span.column])
       ELSE Undefined,
   notes |-> IF w.deprecation THEN Some(<<[text |-> w.text]>>) ELSE Undefined]

\* variant: the source map is dropped and the contents are the CSS alone
SuccessResultCssOnly(out, filePath, warnings) ==
  [loader |-> "css",
   contents |-> Some(out.css),
   errors |-> Undefined,
   watchFiles |-> Some([i \in 1..Len(out.loadedUrls) |-> FileURLToPath(out.loadedUrls[i])]),
   warnings |-> warnings]

\* the load result of a successful compilation
SuccessResult(out, filePath, warnings) ==
  [loader |-> "css",
   contents |-> Some(IF IsDefined(out.sourceMap)
                       THEN out.css \o <<"\n">>
                              \o sourceMapToUrlComment(Get(out.sourceMap), Dirname(filePath))
                       ELSE out.css),
   errors |-> Undefined,
   watchFiles |-> Some([i \in 1..Len(out.loadedUrls) |-> FileURLToPath(out.loadedUrls[i])]),
   warnings |-> warnings]

\* the load result of a compilation that ended in a Sass exception
ErrorResultNoWarnings(error, warnings) ==
  [loader |-> "css",
   contents |-> Undefined,
   errors |-> Some(<<[text |-> error.message]>>),
   watchFiles |-> IF IsDefined(error.spanUrl)
                    THEN Some(<<FileURLToPath(Get(error.spanUrl))>>)
                    ELSE Undefined,
   warnings |-> <<>>]

\* variant: the error result also carries empty contents
ErrorResultWithContents(error, warnings) ==
  [loader |-> "css",
   contents |-> Some(<<>>),
   errors |-> Some(<<[text |-> error.message]>>),
   watchFiles |-> IF IsDefined(error.spanUrl)
                    THEN Some(<<FileURLToPath(Get(error.spanUrl))>>)
                    ELSE Undefined,
   warnings |-> warnings]

ErrorResult(error, warnings) ==
  [loader |-> "css",
   contents |-> Undefined,
   errors |-> Some(<<[text |-> error.message]>>),
   watchFiles |-> IF IsDefined(error.spanUrl)
                    THEN Some(<<FileURLToPath(Get(error.spanUrl))>>)
                    ELSE Undefined,
   warnings |-> warnings]

(* ------------------------- the load handlers --------------------------- *)
\* the inline rule: filter /^s[ac]ss;/ in namespace angular:styles/component
InlineRule(path) == Len(path) >= 2 /\ path[1] \in {"scss", "sass"} /\ path[2] = ";"
\* the file rule: filter /\.s[ac]ss$/
FileRule(path) == Len(path) >= 1 /\ path[Len(path)] \in {".scss", ".sass"}

\* a load-handler invocation that has not started; the fields data to thrown
\* are the handler's locals and outcome, the fields didRead, didPut, created
\* and request record what the invocation did, and startedAfter the calls of
\* shutdownSassWorkerPool made before it started
IdleLoad ==
  [pc |-> "idle", kind |-> "none", path |-> <<>>, data |-> Undefined,
   filePath |-> Undefined, syntax |-> "none", worker |-> NoWorker,
   request |-> Undefined, emitted |-> <<>>, warnings |-> <<>>,
   raised |-> Undefined, result |-> Undefined, thrown |-> Undefined,
   didRead |-> FALSE, didPut |-> FALSE, created |-> FALSE, startedAfter |-> 0]

\* invocations start in the order of their numbers
CanStart(p) ==
  /\ loads[p].pc = "idle"
  /\ \A q \in Loads : q < p => loads[q].pc # "idle"

\* cache?.get(key)
CacheGet(key) == IF hasCache THEN cache[key] ELSE Undefined

\* the handlers' test for caching a result: result.errors === undefined
ShouldCacheAlways(result) == TRUE
ShouldCache(result) == result.errors = Undefined

\* the handlers' return of a cached result
ReturnCachedStripped(l, cached) ==
  [l EXCEPT !.pc = "done", !.result = Some([cached EXCEPT !.warnings = <<>>])]
ReturnCached(l, cached) == [l EXCEPT !.pc = "done", !.result = Some(cached)]

\* `new SassWorkerImplementation(true)` after the awaited import: the
\* instance the module-scope handle is set to
ConstructWorker == nWorkers + 1

\* compileString from `const warnings = []` to the compileStringAsync call on
\* worker w; pathToFileURL(undefined) throws inside the try block and is
\* re-thrown by the catch, not being a Sass exception
Invoke(l, w) ==
  IF IsDefined(l.filePath)
    THEN [l EXCEPT !.pc = "compiling", !.worker = w, !.warnings = <<>>,
                   !.request = Some(Request(Get(l.data), Get(l.filePath), l.syntax))]
    ELSE [l EXCEPT !.pc = "threw", !.thrown = Some(TypeError)]

\* variant: the handle is used without the test for undefined
EnterCompileStringUnchecked(p, l) ==
  /\ loads' = [loads EXCEPT ![p] = Invoke(l, sassWorkerPool)]
  /\ UNCHANGED <<sassWorkerPool, nWorkers, closed>>

\* the entry of compileString: with no handle it awaits the dynamic import,
\* otherwise it goes on to the compiler call in the same step
EnterCompileString(p, l) ==
  /\ loads' = [loads EXCEPT ![p] =
                 IF sassWorkerPool = NoWorker THEN [l EXCEPT !.pc = "importing"]
                 ELSE Invoke(l, sassWorkerPool)]
  /\ UNCHANGED <<sassWorkerPool, nWorkers, closed>>

\* options.inlineComponentData?.[args.path]
InlineDataOrDefault(path) ==
  IF IsDefined(inlineComponentData) /\ IsDefined(Get(inlineComponentData)[path])
    THEN Get(inlineComponentData)[path] ELSE Some(TextY)
InlineData(path) ==
  IF IsDefined(inlineComponentData) THEN Get(inlineComponentData)[path] ELSE Undefined

\* the inline rule's handler up to its first await
InlineLoad(p, path) ==
  /\ CanStart(p)
  /\ InlineRule(path)
  /\ LET data == InlineData(path)
         l0 == [loads[p] EXCEPT !.kind = "inline", !.path = path, !.data = data,
                                !.startedAfter = shutdowns]
     IN IF ~IsDefined(data)
          THEN /\ loads' = [loads EXCEPT ![p] =
                              [l0 EXCEPT !.pc = "threw", !.thrown = Some(AssertionError(path))]]
               /\ UNCHANGED <<sassWorkerPool, nWorkers, closed>>
        ELSE IF IsDefined(CacheGet(Get(data)))
          THEN /\ loads' = [loads EXCEPT ![p] = ReturnCached(l0, Get(CacheGet(Get(data))))]
               /\ UNCHANGED <<sassWorkerPool, nWorkers, closed>>
        ELSE LET parts == SplitLimit(path, ";", 3)
                 language == parts[1]
                 filePath == IF Len(parts) >= 3 THEN Some(parts[3]) ELSE Undefined
                 syntax == IF language = <<"sass">> THEN "indented" ELSE "scss"
             IN EnterCompileString(p, [l0 EXCEPT !.filePath = filePath, !.syntax = syntax])
  /\ UNCHANGED <<sourcemap, inlineComponentData, hasCache, cache, shutdowns, shutdownThrew, imp, sm>>

\* the file rule's handler up to its first await
FileLoad(p, path) ==
  /\ CanStart(p)
  /\ FileRule(path)
  /\ LET l0 == [loads[p] EXCEPT !.kind = "file", !.path = path,
                                !.startedAfter = shutdowns] IN
     loads' = [loads EXCEPT ![p] =
                 IF IsDefined(CacheGet(path))
                   THEN ReturnCached(l0, Get(CacheGet(path)))
                   ELSE [l0 EXCEPT !.pc = "reading", !.didRead = TRUE]]
  /\ UNCHANGED <<sourcemap, inlineComponentData, hasCache, cache, sassWorkerPool,
                 nWorkers, closed, shutdowns, shutdownThrew, imp, sm>>

\* readFile resolves: the handler derives the dialect and enters compileString
ReadFileReturns(p) ==
  /\ loads[p].pc = "reading"
  /\ LET path == loads[p].path
         text == FileContents[path]
         syntax == IF ToLowerCase(Extname(path)) = <<".sass">> THEN "indented" ELSE "scss"
     IN EnterCompileString(p, [loads[p] EXCEPT !.data = Some(text),
                                               !.filePath = Some(path), !.syntax = syntax])
  /\ UNCHANGED <<sourcemap, inlineComponentData, hasCache, cache, shutdowns, shutdownThrew, imp, sm>>

\* readFile rejects: the handler rejects with the same error
ReadFileFails(p) ==
  /\ loads[p].pc = "reading"
  /\ loads' = [loads EXCEPT ![p] = [@ EXCEPT !.pc = "threw", !.thrown = Some(ReadError)]]
  /\ UNCHANGED <<sourcemap, inlineComponentData, hasCache, cache, sassWorkerPool,
                 nWorkers, closed, shutdowns, shutdownThrew, imp, sm>>

\* the awaited import resolves: compileString constructs a worker, stores it
\* in the module-scope handle and calls compileStringAsync on it
ImportReturns(p) ==
  /\ loads[p].pc = "importing"
  /\ nWorkers' = nWorkers + 1
  /\ sassWorkerPool' = ConstructWorker
  /\ loads' = [loads EXCEPT ![p] = Invoke([@ EXCEPT !.created = TRUE], ConstructWorker)]
  /\ UNCHANGED <<sourcemap, inlineComponentData, hasCache, cache, closed,
                 shutdowns, shutdownThrew, imp, sm>>

\* the compiler calls logger.warn during a compilation
LoggerWarnUpTo(p, w, n) ==
  /\ loads[p].pc = "compiling"
  /\ Len(loads[p].emitted) < n
  /\ loads' = [loads EXCEPT ![p] = [@ EXCEPT !.emitted = Append(@, w),
                                             !.warnings = Append(@, WarnMessage(w))]]
  /\ UNCHANGED <<sourcemap, inlineComponentData, hasCache, cache, sassWorkerPool,
                 nWorkers, closed, shutdowns, shutdownThrew, imp, sm>>

LoggerWarn(p, w) == LoggerWarnUpTo(p, w, MaxWarnings)

\* compileStringAsync resolves: compileString returns the success result
CompileResolves(p) ==
  /\ loads[p].pc = "compiling"
  /\ LET l == loads[p] IN
     loads' = [loads EXCEPT ![p] =
       [l EXCEPT !.pc = "compiled",
                 !.result = Some(SuccessResult(CompileResult(Get(l.request)),
                                               Get(l.filePath), l.warnings))]]
  /\ UNCHANGED <<sourcemap, inlineComponentData, hasCache, cache, sassWorkerPool,
                 nWorkers, closed, shutdowns, shutdownThrew, imp, sm>>

\* compileStringAsync rejects: the catch block returns an error result for a
\* Sass exception and re-throws anything else, which the handler's await of
\* compileString passes on to the handler's caller
CompileRejects(p) ==
  /\ loads[p].pc = "compiling"
  /\ \E error \in Rejections(Get(loads[p].request).url) :
     LET l == loads[p] IN
     loads' = [loads EXCEPT ![p] =
       IF isSassException(error)
         THEN [l EXCEPT !.pc = "compiled", !.raised = Some(error),
                        !.result = Some(ErrorResult(error, l.warnings))]
         ELSE [l EXCEPT !.pc = "threw", !.raised = Some(error), !.thrown = Some(error)]]
  /\ UNCHANGED <<sourcemap, inlineComponentData, hasCache, cache, sassWorkerPool,
                 nWorkers, closed, shutdowns, shutdownThrew, imp, sm>>

\* the key a handler caches under: the source text for an inline style, the
\* path for a file
CacheKey(l) == IF l.kind = "inline" THEN Get(l.data) ELSE l.path

\* the handler resumes with compileString's result: an error-free result is
\* put into the cache (the put is awaited), any other is returned at once
HandlerResumes(p) ==
  /\ loads[p].pc = "compiled"
  /\ LET l == loads[p]
         result == Get(l.result)
     IN IF ShouldCache(result)
          THEN /\ cache' = IF hasCache THEN [cache EXCEPT ![CacheKey(l)] = Some(result)]
                                       ELSE cache
               /\ loads' = [loads EXCEPT ![p] = [l EXCEPT !.pc = "putting", !.didPut = hasCache]]
          ELSE /\ loads' = [loads EXCEPT ![p] = [l EXCEPT !.pc = "done"]]
               /\ UNCHANGED cache
  /\ UNCHANGED <<sourcemap, inlineComponentData, hasCache, sassWorkerPool,
                 nWorkers, closed, shutdowns, shutdownThrew, imp, sm>>

\* the awaited put resolves: the handler returns the result
PutReturns(p) ==
  /\ loads[p].pc = "putting"
  /\ loads' = [loads EXCEPT ![p] = [@ EXCEPT !.pc = "done"]]
  /\ UNCHANGED <<sourcemap, inlineComponentData, hasCache, cache, sassWorkerPool,
                 nWorkers, closed, shutdowns, shutdownThrew, imp, sm>>

(* ------------------------------ shutdown ------------------------------- *)
\* sassWorkerPool?.close(): the instances closed afterwards, and whether the
\* call threw
OptionalClose(pool) ==
  [closed |-> IF pool = NoWorker THEN closed ELSE closed \cup {pool},
   threw |-> FALSE]

\* sassWorkerPool = undefined
KeepHandle(pool) == pool
ClearHandle(pool) == NoWorker

shutdownSassWorkerPool ==
  /\ shutdowns < MaxShutdowns
  /\ shutdowns' = shutdowns + 1
  /\ LET r == OptionalClose(sassWorkerPool) IN
     /\ closed' = r.closed
     /\ shutdownThrew' = (shutdownThrew \/ r.threw)
     /\ sassWorkerPool' = IF r.threw THEN sassWorkerPool ELSE ClearHandle(sassWorkerPool)
  /\ UNCHANGED <<sourcemap, inlineComponentData, hasCache, cache, nWorkers, loads, imp, sm>>

(* ---------------------------- the importer ---------------------------- *)
\* build.initialOptions.absWorkingDir
WorkDir == <<"/", "proj">>

\* the directories previousResolvedModules can hold, in insertion order
RootList == <<<<"/", "r1">>, <<"/", "r2">>, <<"/", "r3">>, <<"/", "r4">>>>

\* the values of previousResolvedModules: absent, or a set whose iteration
\* order is its insertion order
RootSets ==
  {Undefined} \cup {Some(SubSeq(RootList, 1, n)) : n \in 0..Min(MaxRoots, Len(RootList))}

\* the segments import specifiers are built from
ScopeSeg == <<"@", "scope">>
Segs == {<<>>, <<"pkg">>, <<"sub">>, <<"path">>, ScopeSeg}

\* the import specifiers handed to findFileUrl: 1..MaxSegs segments joined by "/"
Specifiers ==
  {JoinWith(segs, "/") : segs \in UNION {[1..n -> Segs] : n \in 1..MaxSegs}}

\* a bundler result without a path
NoPath == <<>>
\* the paths the bundler can resolve a request to
ManifestPath == <<"/", "nm", "/", "pkg", "/", "package.json">>
RootManifestPath == <<"/", "package.json">>
ResolvedPaths == {ManifestPath, RootManifestPath}

\* findFileUrl's null
Null == <<"null">>

\* the package name of a specifier: two segments for a scoped package
HasScope(parts) == Len(parts) >= 2 /\ StartsWith(parts[1], "@")
PackageName(url) ==
  LET parts == Split(url, "/") IN
  IF HasScope(parts) THEN parts[1] \o <<"/">> \o parts[2] ELSE parts[1]

\* `!hasScope && nameOrFirstPath ? nameOrFirstPath : ''`
FirstPathAlways(parts) == IF Len(parts) >= 2 THEN parts[2] ELSE <<>>
FirstPath(parts) ==
  IF ~HasScope(parts) /\ Len(parts) >= 2 /\ parts[2] # <<>> THEN parts[2] ELSE <<>>

\* the directory the deep-import path is built in
PackageDirIsManifest(manifestPath) == manifestPath
PackageDir(manifestPath) == Dirname(manifestPath)

\* the URL findFileUrl returns when the package manifest resolved
PackageUrl(url, manifestPath) ==
  LET parts == Split(url, "/")
      pathPart == SubSeq(parts, 3, Len(parts))
  IN PathToFileURL(Join(<<PackageDir(manifestPath), FirstPath(parts)>> \o pathPart))

\* findFileUrl's four resolveUrl calls, in order: what is resolved, whether
\* previousResolvedModules is passed, and whether it is the package manifest
StrategyRootsFirst(s, url) ==
  [target |-> IF s \in {1, 2} THEN url ELSE PackageName(url) \o <<"/", "package.json">>,
   withRoots |-> s \in {2, 4},
   manifest |-> s \in {3, 4}]
Strategy(s, url) ==
  [target |-> IF s \in {1, 3} THEN url ELSE PackageName(url) \o <<"/", "package.json">>,
   withRoots |-> s \in {3, 4},
   manifest |-> s \in {2, 4}]

IdleImporter ==
  [pc |-> "idle", url |-> <<>>, roots |-> Undefined, strategy |-> 0, root |-> 0,
   returned |-> Undefined, calls |-> <<>>, resolves |-> <<>>]

\* variant: every call is resolved from the working directory
ResolveDirWorkDir(i) == WorkDir

\* the directory of the pending build.resolve call: the working directory for
\* resolveUrl's first call, then the roots in order
ResolveDir(i) == IF i.root = 0 THEN WorkDir ELSE Get(i.roots)[i.root]

\* the roots resolveUrl was given in the current strategy
PassedRoots(i) ==
  IF Strategy(i.strategy, i.url).withRoots /\ IsDefined(i.roots) THEN Get(i.roots) ELSE <<>>

\* imp after the pending build.resolve call answered path
Answered(i, path) ==
  [i EXCEPT !.resolves = Append(@, [call |-> i.strategy,
                                    url |-> Strategy(i.strategy, i.url).target,
                                    kind |-> "import-rule",
                                    resolveDir |-> ResolveDir(i), path |-> path])]

\* imp after the current resolveUrl call returned a result with path
Returned(i, path) ==
  [Answered(i, path) EXCEPT
     !.calls = Append(@, [url |-> Strategy(i.strategy, i.url).target,
                          withRoots |-> Strategy(i.strategy, i.url).withRoots,
                          path |-> path])]

\* resolveUrl tries the next root when the answer has no path and a root is left
TriesNextRoot(i, path) == path = NoPath /\ i.root < Len(PassedRoots(i))

\* the compiler calls findFileUrl: the first resolveUrl call asks the bundler
FindFileUrl(url, roots) ==
  /\ imp.pc = "idle"
  /\ imp' = [imp EXCEPT !.pc = "resolving", !.url = url, !.roots = roots,
                        !.strategy = 1, !.root = 0]
  /\ UNCHANGED <<mainVars, sm>>

\* resolveUrl's loop: the bundler found nothing and the next root is asked
ResolveNextRoot ==
  /\ imp.pc = "resolving"
  /\ TriesNextRoot(imp, NoPath)
  /\ imp' = [Answered(imp, NoPath) EXCEPT !.root = @ + 1]
  /\ UNCHANGED <<mainVars, sm>>

\* resolveUrl returns a path for the specifier: findFileUrl returns its URL
FoundUrl(path) ==
  /\ imp.pc = "resolving"
  /\ ~Strategy(imp.strategy, imp.url).manifest
  /\ path # NoPath
  /\ imp' = [Returned(imp, path) EXCEPT !.pc = "done",
                                        !.returned = Some(PathToFileURL(path))]
  /\ UNCHANGED <<mainVars, sm>>

\* resolveUrl returns a path for the manifest: findFileUrl returns the URL
\* built from the manifest's directory and the rest of the specifier
FoundPackage(path) ==
  /\ imp.pc = "resolving"
  /\ Strategy(imp.strategy, imp.url).manifest
  /\ path # NoPath
  /\ imp' = [Returned(imp, path) EXCEPT !.pc = "done",
                                        !.returned = Some(PackageUrl(imp.url, path))]
  /\ UNCHANGED <<mainVars, sm>>

\* resolveUrl returns no path: findFileUrl goes on to its next resolveUrl call
NextStrategy ==
  /\ imp.pc = "resolving"
  /\ ~TriesNextRoot(imp, NoPath)
  /\ imp.strategy < 4
  /\ imp' = [Returned(imp, NoPath) EXCEPT !.strategy = @ + 1, !.root = 0]
  /\ UNCHANGED <<mainVars, sm>>

\* the last resolveUrl call returns no path: findFileUrl returns null
NotFound ==
  /\ imp.pc = "resolving"
  /\ ~TriesNextRoot(imp, NoPath)
  /\ imp.strategy = 4
  /\ imp' = [Returned(imp, NoPath) EXCEPT !.pc = "done", !.returned = Some(Null)]
  /\ UNCHANGED <<mainVars, sm>>

(* ------------------------- source-map rewriting ------------------------ *)
\* the directories a compiled file lies in
OutputDirs == {<<"/", "proj">>, <<"/", "proj", "/", "lib">>}

\* source entries: file URLs as the compiler records them, and paths
\* relative to the output directory
SourceEntries ==
  {PathToFileURL(FileA), PathToFileURL(FileB), DepUrl,
   <<"a", ".scss">>, <<"..", "/", "_dep", ".scss">>}

SourceLists == UNION {[1..n -> SourceEntries] : n \in 0..MaxSources}

\* no source map under rewriting
NoSourceMap == [root |-> <<>>, sources |-> <<>>, given |-> Undefined, calls |-> 0,
                thrown |-> Undefined]

\* sourceMapToUrlComment(sourceMap, root) with every source a file URL: the
\* sources of the map are replaced in place and the comment is returned
RewriteReturns ==
  /\ sm.calls < MaxRewrites
  /\ ~IsDefined(sm.thrown)
  /\ \A i \in 1..Len(sm.sources) : ~FileURLToPathThrows(sm.sources[i])
  /\ sm' = [sm EXCEPT !.sources = RewrittenSources(sm.sources, sm.root),
                      !.given = Some(sm.sources),
                      !.calls = @ + 1]
  /\ UNCHANGED <<mainVars, imp>>

\* sourceMapToUrlComment(sourceMap, root) with a source that is no file URL:
\* fileURLToPath throws inside map, before sources is assigned
RewriteThrows ==
  /\ sm.calls < MaxRewrites
  /\ ~IsDefined(sm.thrown)
  /\ \E i \in 1..Len(sm.sources) : FileURLToPathThrows(sm.sources[i])
  /\ sm' = [sm EXCEPT !.given = Some(sm.sources),
                      !.calls = @ + 1,
                      !.thrown = Some(InvalidURL)]
  /\ UNCHANGED <<mainVars, imp>>

(* ---------------------------- specification ---------------------------- *)
Init ==
  /\ sourcemap \in BOOLEAN
  /\ inlineComponentData \in {Undefined, Some(ComponentData)}
  /\ hasCache \in BOOLEAN
  /\ cache = [k \in Keys |-> Undefined]
  /\ sassWorkerPool = NoWorker
  /\ nWorkers = 0
  /\ closed = {}
  /\ shutdowns = 0
  /\ shutdownThrew = FALSE
  /\ loads = [p \in Loads |-> IdleLoad]
  /\ imp = IdleImporter
  /\ sm = NoSourceMap

Next ==
  \/ \E p \in Loads, path \in InlinePaths : InlineLoad(p, path)
  \/ \E p \in Loads, path \in FilePaths : FileLoad(p, path)
  \/ \E p \in Loads : ReadFileReturns(p)
  \/ \E p \in Loads : ReadFileFails(p)
  \/ \E p \in Loads : ImportReturns(p)
  \/ \E p \in Loads, w \in RawWarnings : LoggerWarn(p, w)
  \/ \E p \in Loads : CompileResolves(p)
  \/ \E p \in Loads : CompileRejects(p)
  \/ \E p \in Loads : HandlerResumes(p)
  \/ \E p \in Loads : PutReturns(p)
  \/ shutdownSassWorkerPool

Spec == Init /\ [][Next]_vars

\* the importer alone: one call of findFileUrl by the compiler, the plugin's
\* other state at rest
InitImporter ==
  /\ sourcemap = FALSE
  /\ inlineComponentData = Some(ComponentData)
  /\ hasCache = TRUE
  /\ cache = [k \in Keys |-> Undefined]
  /\ sassWorkerPool = NoWorker
  /\ nWorkers = 0
  /\ closed = {}
  /\ shutdowns = 0
  /\ shutdownThrew = FALSE
  /\ loads = [p \in Loads |-> IdleLoad]
  /\ imp = IdleImporter
  /\ sm = NoSourceMap

NextImporter ==
  \/ imp.pc = "idle" /\ \E url \in Specifiers, roots \in RootSets : FindFileUrl(url, roots)
  \/ ResolveNextRoot
  \/ \E path \in ResolvedPaths : FoundUrl(path)
  \/ \E path \in ResolvedPaths : FoundPackage(path)
  \/ NextStrategy
  \/ NotFound

SpecImporter == InitImporter /\ [][NextImporter]_vars

\* the rewrite alone: a source map with bounded sources, handed to
\* sourceMapToUrlComment up to MaxRewrites times, the plugin at rest
InitRewrite ==
  /\ sourcemap = TRUE
  /\ inlineComponentData = Some(ComponentData)
  /\ hasCache = TRUE
  /\ cache = [k \in Keys |-> Undefined]
  /\ sassWorkerPool = NoWorker
  /\ nWorkers = 0
  /\ closed = {}
  /\ shutdowns = 0
  /\ shutdownThrew = FALSE
  /\ loads = [p \in Loads |-> IdleLoad]
  /\ imp = IdleImporter
  /\ \E root \in OutputDirs, sources \in SourceLists :
       sm = [NoSourceMap EXCEPT !.root = root, !.sources = sources]

NextRewrite ==
  \/ RewriteReturns
  \/ RewriteThrows

SpecRewrite == InitRewrite /\ [][NextRewrite]_vars

\* one load taken alone: a single invocation of a load handler on a fresh
\* plugin, the compiler emitting up to MaxEmitted warnings
NextCompile ==
  \/ \E path \in InlinePaths : InlineLoad(1, path)
  \/ \E path \in FilePaths : FileLoad(1, path)
  \/ ReadFileReturns(1)
  \/ ReadFileFails(1)
  \/ ImportReturns(1)
  \/ \E w \in DetailedWarnings : LoggerWarnUpTo(1, w, MaxEmitted)
  \/ CompileResolves(1)
  \/ CompileRejects(1)
  \/ HandlerResumes(1)
  \/ PutReturns(1)

SpecCompile == Init /\ [][NextCompile]_vars

(* ------------------------------- claims -------------------------------- *)
\* a load whose compilation rejected with a value of the compiler-exception
\* shape: an object with a sassMessage field
RejectedWithSassShape(l) ==
  /\ IsDefined(l.raised)
  /\ Get(l.raised).type = "object"
  /\ "sassMessage" \in Get(l.raised).fields

\* a load whose compilation rejected with any other value
RejectedWithOtherShape(l) == IsDefined(l.raised) /\ ~RejectedWithSassShape(l)

\* C1: the cache never holds a result whose errors field is set; a load whose
\* compilation produced an error performs no cache put; and a result with
\* errors is never served from the cache: the load that returns it invoked the
\* compiler itself.
C1_ErrorsNeverCached ==
  /\ \A k \in Keys : IsDefined(cache[k]) => Get(cache[k]).errors = Undefined
  /\ \A p \in Loads :
       (IsDefined(loads[p].result) /\ Get(loads[p].result).errors # Undefined)
         => (~loads[p].didPut /\ loads[p].pc # "putting" /\ IsDefined(loads[p].request))

\* C1 witness: with a cache, a load has returned an error result and a later
\* load of the same identity is compiling again.
C1_Witness ==
  /\ hasCache
  /\ loads[1].pc = "done"
  /\ IsDefined(loads[1].result) /\ Get(loads[1].result).errors # Undefined
  /\ loads[2].pc = "compiling"
  /\ loads[2].kind = loads[1].kind
  /\ CacheKey(loads[2]) = CacheKey(loads[1])

\* the identity a load that has just started looks up in the cache
StartedKey(l) == IF l.kind = "file" THEN Some(l.path) ELSE l.data

\* C2: a load that starts while a result is cached under its identity returns
\* that cached value verbatim in the same step and has no other effect: no
\* compiler call, no worker creation, no file read, no cache write.
C2_CacheHitHasNoEffect ==
  [][\A p \in Loads :
       ( /\ hasCache
         /\ loads[p].pc = "idle" /\ loads'[p].pc # "idle"
         /\ IsDefined(StartedKey(loads'[p]))
         /\ IsDefined(cache[Get(StartedKey(loads'[p]))]) )
       => ( /\ loads'[p].pc = "done"
            /\ loads'[p].result = cache[Get(StartedKey(loads'[p]))]
            /\ ~IsDefined(loads'[p].thrown)
            /\ ~IsDefined(loads'[p].request) /\ loads'[p].worker = NoWorker
            /\ ~loads'[p].created /\ ~loads'[p].didRead /\ ~loads'[p].didPut
            /\ \A q \in Loads \ {p} : loads'[q] = loads[q]
            /\ UNCHANGED <<cache, sassWorkerPool, nWorkers, closed>> )]_vars

\* C2 witness: a load has returned a result with warnings without calling the
\* compiler, the result being the one cached under its identity.
C2_Witness ==
  \E p \in Loads :
    /\ loads[p].pc = "done"
    /\ ~IsDefined(loads[p].request)
    /\ IsDefined(loads[p].result)
    /\ Get(loads[p].result).warnings # <<>>
    /\ loads[p].result = cache[Get(StartedKey(loads[p]))]

\* C3: lazy creation is race-free: as long as shutdownSassWorkerPool has not
\* been called, at most one worker instance is ever constructed and every
\* compilation runs on that one instance.
C3_SingleWorkerConstructed ==
  shutdowns = 0 =>
    /\ nWorkers <= 1
    /\ \A p \in Loads : loads[p].worker \in {NoWorker, 1}

\* C4: shutdownSassWorkerPool never throws; with no handle it changes nothing,
\* with a handle it closes that instance and clears the handle; and every
\* compiler call is made on an instance that is not closed, a freshly
\* constructed one when the call finds no handle.
C4_ShutdownSafe ==
  [][ /\ (shutdowns' # shutdowns) =>
            /\ ~shutdownThrew'
            /\ sassWorkerPool' = NoWorker
            /\ closed' = (IF sassWorkerPool = NoWorker THEN closed
                          ELSE closed \cup {sassWorkerPool})
            /\ UNCHANGED <<nWorkers, cache, loads>>
      /\ \A p \in Loads :
           (loads[p].pc # "compiling" /\ loads'[p].pc = "compiling") =>
             /\ loads'[p].worker # NoWorker
             /\ loads'[p].worker \notin closed'
             /\ loads'[p].worker = sassWorkerPool'
             /\ (sassWorkerPool = NoWorker =>
                   /\ loads'[p].worker = nWorkers + 1
                   /\ nWorkers' = nWorkers + 1) ]_vars

\* C4 witness: after a shutdown closed an instance, a compilation runs on an
\* instance constructed afterwards.
C4_Witness ==
  \E p \in Loads :
    /\ shutdowns > 0 /\ closed # {}
    /\ loads[p].pc = "compiling"
    /\ loads[p].created
    /\ loads[p].worker \notin closed
    /\ \A w \in closed : w < loads[p].worker

\* C9: a compilation that rejects with a compiler-shaped exception makes the
\* load return, without throwing, a result with loader 'css', exactly one
\* error, no contents, the warnings emitted before the failure, and as
\* watchFiles the one file of the exception's span when it has a url,
\* undefined otherwise.
C9_SassExceptionResult ==
  \A p \in Loads :
    RejectedWithSassShape(loads[p]) =>
      LET l == loads[p]
          error == Get(l.raised)
          result == Get(l.result)
      IN /\ l.pc \in {"compiled", "done"}
         /\ ~IsDefined(l.thrown)
         /\ IsDefined(l.result)
         /\ result.loader = "css"
         /\ IsDefined(result.errors) /\ Len(Get(result.errors)) = 1
         /\ Get(result.errors)[1].text = error.message
         /\ result.contents = Undefined
         /\ Len(result.warnings) = Len(l.emitted)
         /\ \A i \in 1..Len(l.emitted) : result.warnings[i] = WarnMessage(l.emitted[i])
         /\ (error.spanUrl = Undefined => result.watchFiles = Undefined)
         /\ (error.spanUrl = Some(PathToFileURL(Get(l.filePath)))
               => result.watchFiles = Some(<<Get(l.filePath)>>))

\* C9 witness: a load has returned the error result of a Sass exception whose
\* span names the compiled file, after a warning was emitted.
C9_Witness ==
  \E p \in Loads :
    /\ loads[p].pc = "done"
    /\ RejectedWithSassShape(loads[p])
    /\ Get(loads[p].raised).spanUrl = Some(PathToFileURL(FileA))
    /\ Len(loads[p].emitted) > 0
    /\ Get(loads[p].result).watchFiles = Some(<<FileA>>)

\* C10: a compilation that rejects with a value lacking the compiler-exception
\* shape yields no load result: the handler throws that same value and the
\* load puts nothing into the cache.
C10_OtherExceptionPropagates ==
  \A p \in Loads :
    RejectedWithOtherShape(loads[p]) =>
      /\ loads[p].pc = "threw"
      /\ loads[p].thrown = loads[p].raised
      /\ ~IsDefined(loads[p].result)
      /\ ~loads[p].didPut

\* C10 witness: a load has thrown the plain object its compilation rejected
\* with, while the plugin has a cache.
C10_Witness ==
  \E p \in Loads :
    /\ hasCache
    /\ loads[p].pc = "threw"
    /\ IsDefined(loads[p].raised)
    /\ Get(loads[p].raised).type = "object"
    /\ "sassMessage" \notin Get(loads[p].raised).fields

\* the manifest request of a specifier
ManifestOf(url) == PackageName(url) \o <<"/", "package.json">>

\* the fallback roots of the importer call
GivenRoots == IF IsDefined(imp.roots) THEN Get(imp.roots) ELSE <<>>

\* the importer call returned because resolveUrl resolved the manifest
FoundByManifest ==
  /\ imp.pc = "done"
  /\ imp.returned # Some(Null)
  /\ imp.calls[Len(imp.calls)].url = ManifestOf(imp.url)

\* the path the manifest resolved to, and its directory
FoundManifest == imp.calls[Len(imp.calls)].path
ManifestDirectory(m) == IF m = RootManifestPath THEN <<"/">> ELSE <<"/", "nm", "/", "pkg">>

\* C5: findFileUrl makes its resolveUrl calls in the fixed order specifier,
\* manifest, specifier with roots, manifest with roots; every call but the
\* last one made found nothing, so it returns at the first call that yields a
\* path and asks the bundler nothing afterwards; it returns null exactly when
\* all four calls found nothing.
C5_StrategyOrder ==
  LET c == imp.calls
      r == imp.resolves
  IN /\ Len(c) <= 4
     /\ \A k \in 1..Len(c) :
          /\ c[k].url = (IF k \in {1, 3} THEN imp.url ELSE ManifestOf(imp.url))
          /\ c[k].withRoots = (k >= 3)
     /\ \A k \in 1..(Len(c) - 1) : c[k].path = NoPath
     /\ \A j \in 1..(Len(r) - 1) : r[j].path = NoPath
     /\ imp.pc = "resolving" => (Len(c) = imp.strategy - 1 /\ \A k \in 1..Len(c) : c[k].path = NoPath)
     /\ imp.pc = "done" =>
          /\ (imp.returned = Some(Null)) <=> (Len(c) = 4 /\ \A k \in 1..4 : c[k].path = NoPath)
          /\ (imp.returned # Some(Null)) =>
               (c[Len(c)].path # NoPath /\ r[Len(r)].path = c[Len(c)].path)

\* C5 witness: findFileUrl returned a URL found by its fourth call only.
C5_Witness ==
  /\ imp.pc = "done"
  /\ Len(imp.calls) = 4
  /\ imp.returned # Some(Null)
  /\ Len(GivenRoots) = 2

\* a bundler request for the specifier itself / for the manifest
IsSpecifierRequest(q) == q.url = imp.url
IsManifestRequest(q) == q.url = ManifestOf(imp.url)

\* C6 as stated: once native resolution failed and fallback roots are
\* available, every fallback root is asked for the specifier itself before
\* any manifest request is made.
C6_RootsBeforeManifest ==
  LET r == imp.resolves IN
  \A j \in 1..Len(r) :
    (IsManifestRequest(r[j]) /\ Len(GivenRoots) > 0) =>
      \A n \in 1..Len(GivenRoots) :
        \E i \in 1..(j - 1) : IsSpecifierRequest(r[i]) /\ r[i].resolveDir = GivenRoots[n]

\* C6 amended: the chain is native resolve, manifest from the working
\* directory, fallback roots, manifest with fallback roots: no fallback root
\* is asked before the manifest request from the working directory found
\* nothing, and every fallback root has been asked for the specifier itself,
\* in vain, before the manifest is requested from a fallback root.
C6_ManifestBeforeRoots ==
  LET r == imp.resolves IN
  /\ Len(r) >= 1 => (IsSpecifierRequest(r[1]) /\ r[1].resolveDir = WorkDir)
  /\ \A j \in 1..Len(r) :
       (r[j].resolveDir # WorkDir) =>
         /\ r[1].path = NoPath
         /\ \E i \in 1..(j - 1) :
              IsManifestRequest(r[i]) /\ r[i].resolveDir = WorkDir /\ r[i].path = NoPath
  /\ \A j \in 1..Len(r) :
       (IsManifestRequest(r[j]) /\ r[j].resolveDir # WorkDir) =>
         \A n \in 1..Len(GivenRoots) :
           \E i \in 1..(j - 1) :
             /\ IsSpecifierRequest(r[i])
             /\ r[i].resolveDir = GivenRoots[n]
             /\ r[i].path = NoPath

\* C6 witness: with two fallback roots, the manifest was requested from the
\* second one.
C6_Witness ==
  /\ Len(GivenRoots) = 2
  /\ \E j \in 1..Len(imp.resolves) :
       /\ IsManifestRequest(imp.resolves[j])
       /\ imp.resolves[j].resolveDir = GivenRoots[2]

\* the deep imports of the claim's examples
ScopedDeepImport == <<"@", "scope", "/", "pkg", "/", "sub", "/", "path">>
PlainDeepImport == <<"pkg", "/", "sub", "/", "path">>

\* C7: when the manifest of a deep import resolves into directory D, the
\* importer returns D followed by exactly the segments after the package name
\* (after the first two segments for a scoped package, after the first
\* otherwise), and asks the bundler nothing about the path it returns. Stated
\* for specifiers without empty segments, which path.join would drop.
C7_DeepImportPath ==
  FoundByManifest =>
    LET parts == Split(imp.url, "/")
        scoped == Len(parts) >= 2 /\ Len(parts[1]) >= 1 /\ parts[1][1] = "@"
        rest == SubSeq(parts, IF scoped THEN 3 ELSE 2, Len(parts))
        dir == ManifestDirectory(FoundManifest)
    IN /\ imp.resolves[Len(imp.resolves)].url = ManifestOf(imp.url)
       /\ imp.resolves[Len(imp.resolves)].path = FoundManifest
       /\ ((\A k \in 1..Len(parts) : parts[k] # <<>>) /\ Len(rest) > 0) =>
            imp.returned = Some(<<FileScheme>> \o (IF dir = <<"/">> THEN <<>> ELSE dir)
                                  \o <<"/">> \o JoinWith(rest, "/"))
       /\ (imp.url \in {ScopedDeepImport, PlainDeepImport} /\ FoundManifest = ManifestPath) =>
            imp.returned = Some(<<FileScheme, "/", "nm", "/", "pkg", "/", "sub", "/", "path">>)

\* C7 witness: '@scope/pkg/sub/path' was resolved through its manifest.
C7_Witness ==
  /\ FoundByManifest
  /\ imp.url = ScopedDeepImport
  /\ FoundManifest = ManifestPath

\* C8: for a specifier without a path separator (the empty one included)
\* whose manifest '<name>/package.json' resolves, the importer returns the
\* location the manifest resolved into, which is the directory holding the
\* resolved package.json, with no segment appended.
C8_PlainPackageName ==
  (FoundByManifest /\ Len(Split(imp.url, "/")) = 1) =>
    /\ imp.calls[Len(imp.calls)].url = imp.url \o <<"/", "package.json">>
    /\ imp.returned = Some(<<FileScheme>> \o ManifestDirectory(FoundManifest))

\* C8 witness: the plain package name 'pkg' was resolved through its manifest.
C8_Witness ==
  /\ FoundByManifest
  /\ imp.url = <<"pkg">>
  /\ FoundManifest = ManifestPath

\* C11: an inline load whose encoded path has no entry in inlineComponentData
\* (or with no mapping given at all) throws the assertion error in its first
\* step: it returns no result, calls neither cache nor compiler, creates no
\* worker, and leaves the cache, the handle and the other loads unchanged.
C11_MissingInlineDataAsserts ==
  [][\A p \in Loads :
       ( /\ loads[p].pc = "idle" /\ loads'[p].pc # "idle"
         /\ loads'[p].kind = "inline"
         /\ (IsDefined(inlineComponentData) =>
               ~IsDefined(Get(inlineComponentData)[loads'[p].path])) )
       => ( /\ loads'[p].pc = "threw"
            /\ IsDefined(loads'[p].thrown)
            /\ Get(loads'[p].thrown) = AssertionError(loads'[p].path)
            /\ ~IsDefined(loads'[p].result)
            /\ ~IsDefined(loads'[p].request) /\ loads'[p].worker = NoWorker
            /\ ~loads'[p].created /\ ~loads'[p].didRead /\ ~loads'[p].didPut
            /\ \A q \in Loads \ {p} : loads'[q] = loads[q]
            /\ UNCHANGED <<cache, sassWorkerPool, nWorkers, closed>> )]_vars

\* C11 witness: with a mapping that lacks StyleC, a load of StyleC has thrown
\* while a worker exists and a result is cached.
C11_Witness ==
  \E p \in Loads :
    /\ IsDefined(inlineComponentData)
    /\ loads[p].pc = "threw"
    /\ loads[p].path = StyleC
    /\ sassWorkerPool # NoWorker
    /\ \E k \in Keys : IsDefined(cache[k])

\* two loads of one identity that both missed the cache and have both finished
BothMissedAndFinished(p, q) ==
  /\ p # q
  /\ hasCache
  /\ loads[p].pc = "done" /\ loads[q].pc = "done"
  /\ IsDefined(loads[p].request) /\ IsDefined(loads[q].request)
  /\ loads[p].kind = loads[q].kind
  /\ CacheKey(loads[p]) = CacheKey(loads[q])

\* two load results are equivalent: they agree in all the compiler derives
\* from its input (loader, contents, errors, watch files)
Equivalent(r1, r2) ==
  /\ r1.loader = r2.loader
  /\ r1.contents = r2.contents
  /\ r1.errors = r2.errors
  /\ r1.watchFiles = r2.watchFiles

\* C12: two loads of the same identity that both started on an empty cache
\* entry both call the compiler and each successful one puts its result; once
\* both have finished, the entry, if any, is error-free and equivalent to what
\* either successful compilation alone would have stored.
C12_DuplicateLoadsEquivalent ==
  \A p, q \in Loads :
    BothMissedAndFinished(p, q) =>
      LET entry == cache[CacheKey(loads[p])] IN
      /\ \A r \in {p, q} :
           (Get(loads[r].result).errors = Undefined) => (loads[r].didPut /\ IsDefined(entry))
      /\ IsDefined(entry) =>
           /\ Get(entry).errors = Undefined
           /\ \A r \in {p, q} :
                (Get(loads[r].result).errors = Undefined)
                  => Equivalent(Get(entry), Get(loads[r].result))

\* the message the claim prescribes for compiler warning w
Translated(w, m) ==
  /\ w.deprecation => /\ m.text = <<"Deprecation">>
                      /\ m.notes = Some(<<[text |-> w.text]>>)
  /\ ~w.deprecation => /\ m.text = w.text
                       /\ m.notes = Undefined
  /\ IsDefined(w.span) <=> IsDefined(m.location)
  /\ IsDefined(w.span) => /\ Get(m.location).line = Get(w.span).line + 1
                          /\ Get(m.location).column = Get(w.span).column

\* C13: the result of a load that compiled, with contents or with errors,
\* carries one message per warning the compiler emitted, in emission order;
\* a deprecation has text 'Deprecation' and one note with the original
\* message, any other warning keeps its text and has no notes, and a span
\* is reported with line + 1 and the same column.
C13_WarningsTranslatedInOrder ==
  \A p \in Loads :
    (IsDefined(loads[p].result) /\ IsDefined(loads[p].request)) =>
      LET emitted == loads[p].emitted
          warnings == Get(loads[p].result).warnings
      IN /\ Len(warnings) = Len(emitted)
         /\ \A i \in 1..Len(emitted) : Translated(emitted[i], warnings[i])

C13_Witness ==
  \E p \in Loads :
    /\ IsDefined(loads[p].result) /\ IsDefined(loads[p].request)
    /\ IsDefined(Get(loads[p].result).errors)
    /\ Len(loads[p].emitted) = 2
    /\ loads[p].emitted[1].deprecation /\ ~IsDefined(loads[p].emitted[1].span)
    /\ ~loads[p].emitted[2].deprecation /\ IsDefined(loads[p].emitted[2].span)

\* a path relative to the output directory: no URL and not absolute
IsRelativePath(s) == ~IsFileURL(s) /\ ~StartsWith(s, "/")

\* C14: a call of the source rewrite on a map whose sources are all paths
\* relative to the output directory completes and leaves every source as
\* it was, so a second rewrite gives the sources of the first.
C14_RewriteIdempotent ==
  ( /\ IsDefined(sm.given)
    /\ \A i \in 1..Len(Get(sm.given)) : IsRelativePath(Get(sm.given)[i]) )
  => ( /\ ~IsDefined(sm.thrown)
       /\ sm.sources = Get(sm.given) )

\* the atoms of s that open an inline source-map comment
CommentOpenings(s) ==
  {i \in 1..Len(s) : s[i] = "/*# sourceMappingURL=data:application/json;charset=utf-8;base64,"}

\* a load that compiled and returned contents
CompiledWithContents(l) ==
  /\ IsDefined(l.result) /\ IsDefined(l.request)
  /\ IsDefined(Get(l.result).contents)

\* C15: the contents of a successful compilation are the compiler's CSS,
\* followed by a newline and exactly one inline sourceMappingURL comment
\* when the compiler returned a source map and by nothing otherwise; with
\* the sourcemap option false no source map is requested and the contents
\* carry no comment; watchFiles are the loaded urls as file paths.
C15_ContentsAndWatchFiles ==
  \A p \in Loads :
    CompiledWithContents(loads[p]) =>
      LET req == Get(loads[p].request)
          out == CompileResult(req)
          contents == Get(Get(loads[p].result).contents)
          watchFiles == Get(loads[p].result).watchFiles
          n == Len(out.css)
      IN /\ req.sourceMap = sourcemap
         /\ req.sourceMapIncludeSources = sourcemap
         /\ ~sourcemap => ~IsDefined(out.sourceMap)
         /\ Len(contents) >= n /\ SubSeq(contents, 1, n) = out.css
         /\ IsDefined(out.sourceMap) =>
              /\ Len(contents) > n + 2
              /\ contents[n + 1] = "\n"
              /\ CommentOpenings(contents) = {n + 2}
              /\ contents[Len(contents)] = " */"
         /\ ~IsDefined(out.sourceMap) => contents = out.css
         /\ IsDefined(watchFiles)
         /\ Len(Get(watchFiles)) = Len(out.loadedUrls)
         /\ \A i \in 1..Len(out.loadedUrls) :
              <<FileScheme>> \o Get(watchFiles)[i] = out.loadedUrls[i]

C15_Witness ==
  \E p \in Loads :
    /\ CompiledWithContents(loads[p])
    /\ sourcemap
    /\ CommentOpenings(Get(Get(loads[p].result).contents)) # {}
    /\ loads[p].kind = "file"

\* the build.resolve calls made by the k-th resolveUrl call, in order
ResolvesOf(k) == SelectSeq(imp.resolves, LAMBDA r : r.call = k)

\* the roots the k-th resolveUrl call was given: none when absent
RootsOf(k) ==
  IF Strategy(k, imp.url).withRoots /\ IsDefined(imp.roots) THEN Get(imp.roots) ELSE <<>>

\* C16: a resolveUrl call asks the bundler first from the working directory,
\* then, only after an answer without path, once per given root in order,
\* always with kind 'import-rule' and its specifier, and stops at the first
\* path; it asks once when the first answer has a path or no roots are
\* given, at most 1 + |roots| times otherwise, and returns no path exactly
\* when every answer had none.
C16_ResolveUrlAttempts ==
  /\ \A k \in 1..4 :
       LET seg == ResolvesOf(k)
           roots == RootsOf(k)
       IN /\ Len(seg) <= 1 + Len(roots)
          /\ \A j \in 1..Len(seg) :
               /\ seg[j].kind = "import-rule"
               /\ seg[j].url = Strategy(k, imp.url).target
               /\ seg[j].resolveDir = IF j = 1 THEN WorkDir ELSE roots[j - 1]
               /\ j < Len(seg) => seg[j].path = NoPath
  /\ \A k \in 1..Len(imp.calls) :
       LET seg == ResolvesOf(k)
           roots == RootsOf(k)
       IN /\ Len(seg) >= 1
          /\ (seg[1].path # NoPath \/ Len(roots) = 0) => Len(seg) = 1
          /\ imp.calls[k].path = seg[Len(seg)].path
          /\ imp.calls[k].path = NoPath <=>
               /\ Len(seg) = 1 + Len(roots)
               /\ \A j \in 1..Len(seg) : seg[j].path = NoPath

C16_Witness ==
  \E k \in 1..Len(imp.calls) :
    /\ Len(RootsOf(k)) = 2
    /\ Len(ResolvesOf(k)) = 3
    /\ imp.calls[k].path # NoPath
    /\ ResolvesOf(k)[3].resolveDir = RootList[2]

\* the shape the bundler expects of a load result
WellFormedResult(r) ==
  /\ r.loader = "css"
  /\ IsDefined(r.contents) # IsDefined(r.errors)
  /\ IsDefined(r.errors) => Len(Get(r.errors)) = 1 /\ ~IsDefined(r.contents)

\* C17: every result a load returns, compiled or taken from the cache, and
\* every cache entry has loader 'css' and exactly one of contents and
\* errors; a result with errors has exactly one error and no contents;
\* warnings may come with either.
C17_ResultShape ==
  /\ \A p \in Loads : IsDefined(loads[p].result) => WellFormedResult(Get(loads[p].result))
  /\ \A k \in Keys : IsDefined(cache[k]) => WellFormedResult(Get(cache[k]))

C17_Witness ==
  \E p, q \in Loads :
    /\ IsDefined(loads[p].result) /\ IsDefined(Get(loads[p].result).contents)
    /\ Get(loads[p].result).warnings # <<>>
    /\ \E k \in Keys : cache[k] = loads[p].result
    /\ IsDefined(loads[q].result) /\ IsDefined(Get(loads[q].result).errors)
    /\ Get(loads[q].result).warnings # <<>>

\* C18: in every step in which a load calls compileStringAsync, the callee
\* is the instance the module-scope handle refers to after that step, the
\* handle is defined and the instance has not been closed; and the handle
\* never refers to a closed instance, shutdown clearing it in the step
\* that closes the instance.
C18_CompilerCalledOnOpenHandle ==
  [][ /\ \A p \in Loads :
           (loads'[p].pc = "compiling" /\ loads[p].pc # "compiling") =>
             /\ sassWorkerPool' # NoWorker
             /\ sassWorkerPool' \notin closed'
             /\ loads'[p].worker = sassWorkerPool'
             /\ shutdowns' = shutdowns
      /\ sassWorkerPool' # NoWorker => sassWorkerPool' \notin closed' ]_vars

\* C18 witness: a shutdown closed the instance of a compilation in flight,
\* and a later load compiles on the open instance the handle refers to.
C18_Witness ==
  \E p, q \in Loads :
    /\ loads[p].pc = "compiling" /\ loads[p].worker \in closed
    /\ loads[q].pc = "compiling" /\ loads[q].worker = sassWorkerPool
    /\ sassWorkerPool \notin closed

\* what the compiler returns for the inline request of encoded path
\* 'lang;key;filePath' with source text data
OwnCompilation(path, data) ==
  LET parts == SplitLimit(path, ";", 3) IN
  CompileResult(Request(data, parts[3], IF parts[1] = <<"sass">> THEN "indented" ELSE "scss"))

\* C19: every result with contents that the inline handler returns, compiled
\* or taken from the cache, holds the CSS of the request's own text compiled
\* with its own dialect at its own filePath, and watches the request's own
\* file.
C19_InlineResultIsOwn ==
  \A p \in Loads :
    ( /\ loads[p].kind = "inline"
      /\ IsDefined(loads[p].result)
      /\ IsDefined(Get(loads[p].result).contents)
      /\ Len(SplitLimit(loads[p].path, ";", 3)) >= 3 ) =>
      LET own == OwnCompilation(loads[p].path, Get(loads[p].data))
          r == Get(loads[p].result)
      IN /\ Len(Get(r.contents)) >= Len(own.css)
         /\ SubSeq(Get(r.contents), 1, Len(own.css)) = own.css
         /\ r.watchFiles = Some(<<SplitLimit(loads[p].path, ";", 3)[3]>>)

\* the worker instances constructed so far
Workers == 1..nWorkers

\* a call of shutdownSassWorkerPool was made, the loads started before it
\* have finished and no load started after it
ShutDownAndSettled ==
  /\ shutdowns > 0
  /\ \A p \in Loads : /\ loads[p].pc \in {"idle", "done", "threw"}
                       /\ loads[p].pc # "idle" => loads[p].startedAfter = 0

\* C20: every worker instance constructed so far is the one the handle
\* refers to or has been closed; and when shutdownSassWorkerPool has been
\* called, the loads in flight at that call have finished and no load
\* started after it, every instance has been closed.
C20_NoWorkerLeaked ==
  /\ \A w \in Workers : w = sassWorkerPool \/ w \in closed
  /\ ShutDownAndSettled => \A w \in Workers : w \in closed

====
